---------------------------- MODULE Spec2Model ----------------------------
(***************************************************************************)
(* Housing-affordability pipeline (backend/): party lookup, composite      *)
(* score, quarterly-to-annual aggregation, grouping of annual records into *)
(* government terms, the cached load operation of the servers, and the     *)
(* upstream fetch with its retries.                                        *)
(*                                                                         *)
(* Numbers.  Python floats are modelled by exact rationals [n, d] (d > 0). *)
(* Values that the code passes through round(x, 2) are kept as an integer  *)
(* number of hundredths (99.6 is 9960).  Exceptions are modelled by a      *)
(* result record whose field "raised" names the exception ("None" when the *)
(* function returned).                                                     *)
(***************************************************************************)
EXTENDS Integers, Sequences, FiniteSets, TLC

VARIABLES
    pc,         \* "idle": inputs chosen, nothing called; "done": the call ended
    year,       \* argument of _get_government_party
    party,      \* its return value
    avg_rppi,   \* arguments of calculate_gphi_score (rationals)
    avg_cpi,
    gphi,       \* its outcome: [raised, value (hundredths)]
    annual,     \* argument of calculate_government_terms: annual records
    terms,      \* its return value
    abs_data,   \* argument of the aggregator: the upstream payload
    variant,    \* the source file whose aggregator or server runs ("none": none)
    final,      \* the aggregator's outcome: [raised, value (list of annual records)]
    again,      \* the outcome of a second call of the aggregator on the payload
    CACHE,      \* the process-wide cache: the term list of the last refresh
    LAST_FETCH, \* the time of the last refresh (0: none yet)
    now,        \* time.time()
    req,        \* per request being handled: its position in the load operation
    resp,       \* the last response the load operation gave
    fetch       \* the upstream fetch in progress: position, attempts, payloads

pipelineVars == <<pc, year, party, avg_rppi, avg_cpi, gphi, annual, terms,
                  abs_data, variant, final>>
serveVars == <<again, CACHE, LAST_FETCH, now, req, resp, fetch>>
vars == <<pc, year, party, avg_rppi, avg_cpi, gphi, annual, terms,
          abs_data, variant, final, again, CACHE, LAST_FETCH, now, req, resp,
          fetch>>

---------------------------------------------------------------------------
(* Bounds of the model *)

MinYear == 1940
MaxYear == 2060
MaxDen == 3
FirstYear == 2005
LastYear == 2009
MaxSlots == 4
MaxRequests == 2
StartTime == 5000
MaxElapsed == 3600
MaxIdemSlots == 2
MaxLoads == 2

---------------------------------------------------------------------------
(* Arithmetic helpers *)

Rat(n, d) == [n |-> n, d |-> d]

\* x / y for rationals, y # 0; the denominator is kept positive
RatDiv(x, y) ==
    IF y.n > 0 THEN Rat(x.n * y.d, x.d * y.n)
    ELSE Rat((0 - x.n) * y.d, x.d * (0 - y.n))

\* round(n/d) to an integer, ties to even (d > 0)
RoundHalfEven(n, d) ==
    LET q == n \div d
        r == n % d
    IN  IF 2 * r < d THEN q
        ELSE IF 2 * r > d THEN q + 1
        ELSE IF q % 2 = 0 THEN q ELSE q + 1

\* round(x, 2) of a rational, as a number of hundredths
Round2(x) == RoundHalfEven(100 * x.n, x.d)

\* the outcome of a call: the value returned, or the exception raised by a
\* function that returns a number (Raised) or a list (Failed)
Returned(v) == [raised |-> "None", value |-> v]
Raised(e) == [raised |-> e, value |-> 0]
Failed(e) == [raised |-> e, value |-> <<>>]

Reverse(s) == [i \in 1..Len(s) |-> s[Len(s) + 1 - i]]

---------------------------------------------------------------------------
(* Party lookup *)

GOVERNMENT_HISTORY ==
    << [start_year |-> 2022, party |-> "Labor"],
       [start_year |-> 2013, party |-> "Liberal/National"],
       [start_year |-> 2007, party |-> "Labor"],
       [start_year |-> 1996, party |-> "Liberal/National"] >>

\* for g in <table>: if year >= g['start_year']: return g['party']
RECURSIVE ScanHistory(_, _)
ScanHistory(table, y) ==
    IF table = <<>> THEN "Unknown"
    ELSE IF y >= Head(table).start_year THEN Head(table).party
    ELSE ScanHistory(Tail(table), y)

\* the same scan without reversed(): newest entry first
GetPartyNewestFirst(y) == ScanHistory(GOVERNMENT_HISTORY, y)

_get_government_party(y) == ScanHistory(Reverse(GOVERNMENT_HISTORY), y)

---------------------------------------------------------------------------
(* Score function *)

\* a mutant of the score function: the result is clamped to [0, 100]
ScoreClamped(a, b) ==
    IF b.n = 0 THEN Raised("ZeroDivisionError")
    ELSE LET raw == RatDiv(a, b)
             h == Round2(Rat(1000 * raw.d - 4 * raw.n, 10 * raw.d))
         IN  Returned(IF h < 0 THEN 0 ELSE IF h > 10000 THEN 10000 ELSE h)

\* raw = avg_rppi / avg_cpi ; return round(100 - (raw * 0.4), 2)
calculate_gphi_score(a, b) ==
    IF b.n = 0 THEN Raised("ZeroDivisionError")
    ELSE LET raw == RatDiv(a, b)
         IN  Returned(Round2(Rat(1000 * raw.d - 4 * raw.n, 10 * raw.d)))

---------------------------------------------------------------------------
(* Term grouper *)

NoCurrent ==
    [active |-> FALSE, party |-> "None", start_year |-> 0,
     years |-> <<>>, total_gphi |-> 0]

\* a mutant of finish_term: the duration is the span of the years
FinishTermSpan(term) ==
    LET years == term.years
        avg == Rat(term.total_gphi, 100 * Len(years))
    IN  [government_name |-> <<term.party, years[1].year, years[Len(years)].year>>,
         government_party |-> term.party,
         start_year |-> years[1].year,
         end_year |-> years[Len(years)].year,
         duration_years |-> years[Len(years)].year - years[1].year + 1,
         average_gphi_score |-> Round2(avg),
         annual_metrics |-> years]

finish_term(term) ==
    LET years == term.years
        avg == Rat(term.total_gphi, 100 * Len(years))
    IN  [government_name |-> <<term.party, years[1].year, years[Len(years)].year>>,
         government_party |-> term.party,
         start_year |-> years[1].year,
         end_year |-> years[Len(years)].year,
         duration_years |-> Len(years),
         average_gphi_score |-> Round2(avg),
         annual_metrics |-> years]

\* a mutant of the loop body: a change of party does not start a new term
TermStepKeepParty(st, row) ==
    IF row.government_party = "Unknown" THEN st
    ELSE LET cur == IF ~st.current.active
                    THEN [active |-> TRUE, party |-> row.government_party,
                          start_year |-> row.year, years |-> <<>>, total_gphi |-> 0]
                    ELSE st.current
         IN  [terms |-> st.terms,
              current |-> [cur EXCEPT !.years = Append(@, row),
                                      !.total_gphi = @ + row.gphi_score]]

\* a mutant of the loop body: every record starts a new term
TermStepSplitAlways(st, row) ==
    IF row.government_party = "Unknown" THEN st
    ELSE [terms |-> IF st.current.active
                    THEN Append(st.terms, finish_term(st.current))
                    ELSE st.terms,
          current |-> [active |-> TRUE, party |-> row.government_party,
                       start_year |-> row.year, years |-> <<row>>,
                       total_gphi |-> row.gphi_score]]

\* a mutant of the loop body: the score of a skipped "Unknown" record is
\* added to the running sum of the term in progress
TermStepSumUnknown(st, row) ==
    IF row.government_party = "Unknown"
    THEN IF st.current.active
         THEN [st EXCEPT !.current.total_gphi = @ + row.gphi_score]
         ELSE st
    ELSE LET fresh == ~st.current.active
                      \/ st.current.party # row.government_party
             emitted == IF fresh /\ st.current.active
                        THEN Append(st.terms, finish_term(st.current))
                        ELSE st.terms
             cur == IF fresh
                    THEN [active |-> TRUE, party |-> row.government_party,
                          start_year |-> row.year, years |-> <<>>, total_gphi |-> 0]
                    ELSE st.current
         IN  [terms |-> emitted,
              current |-> [cur EXCEPT !.years = Append(@, row),
                                      !.total_gphi = @ + row.gphi_score]]

\* a mutant of the loop body: a record is put in front of the records of
\* the term in progress
TermStepPrepend(st, row) ==
    IF row.government_party = "Unknown" THEN st
    ELSE LET fresh == ~st.current.active
                      \/ st.current.party # row.government_party
             emitted == IF fresh /\ st.current.active
                        THEN Append(st.terms, finish_term(st.current))
                        ELSE st.terms
             cur == IF fresh
                    THEN [active |-> TRUE, party |-> row.government_party,
                          start_year |-> row.year, years |-> <<>>, total_gphi |-> 0]
                    ELSE st.current
         IN  [terms |-> emitted,
              current |-> [cur EXCEPT !.years = <<row>> \o @,
                                      !.total_gphi = @ + row.gphi_score]]

\* one iteration of "for row in annual"; st = [terms, current]
TermStep(st, row) ==
    IF row.government_party = "Unknown" THEN st          \* continue
    ELSE LET fresh == ~st.current.active
                      \/ st.current.party # row.government_party
             emitted == IF fresh /\ st.current.active
                        THEN Append(st.terms, finish_term(st.current))
                        ELSE st.terms
             cur == IF fresh
                    THEN [active |-> TRUE, party |-> row.government_party,
                          start_year |-> row.year, years |-> <<>>, total_gphi |-> 0]
                    ELSE st.current
         IN  [terms |-> emitted,
              current |-> [cur EXCEPT !.years = Append(@, row),
                                      !.total_gphi = @ + row.gphi_score]]

RECURSIVE TermLoop(_, _)
TermLoop(st, rows) ==
    IF rows = <<>> THEN st ELSE TermLoop(TermStep(st, Head(rows)), Tail(rows))

calculate_government_terms(rows) ==
    IF rows = <<>> THEN <<>>
    ELSE LET st == TermLoop([terms |-> <<>>, current |-> NoCurrent], rows)
         IN  IF st.current.active
             THEN Append(st.terms, finish_term(st.current))
             ELSE st.terms

---------------------------------------------------------------------------
(* Quarterly aggregator.                                                   *)
(*                                                                         *)
(* The payload.  abs_data = [shape, slots].  shape names the structure of  *)
(* the payload: "None" (no payload), "Empty" ({}), "NoDataSets" (the       *)
(* top-level container "data" / "dataSets" is missing), "NoSeries" (no     *)
(* "observations" / "series" container), "NoStructure" (no "structure"),   *)
(* "NoTimePeriod" (the list of observation dimensions is empty, so it has  *)
(* no TIME_PERIOD), "Ok".  slots is the list of time periods of the        *)
(* payload in the order its observations are listed; a slot holds the      *)
(* period identifier and, for each                                         *)
(* metric, the observation list of that period (<<v>>) or <<>> when the    *)
(* metric's series has no observation there.  The RPPI series precedes the *)
(* CPI series, as the fetch functions build the payload.                   *)
(***************************************************************************)

Digits == <<"0", "1", "2", "3", "4", "5", "6", "7", "8", "9">>
IsDigit(c) == \E i \in 1..10 : Digits[i] = c
DigitVal(c) == (CHOOSE i \in 1..10 : Digits[i] = c) - 1

\* period.split("-")[0]
BeforeDash(p) ==
    IF \E i \in 1..Len(p) : p[i] = "-"
    THEN SubSeq(p, 1, (CHOOSE i \in 1..Len(p) :
                          p[i] = "-" /\ \A j \in 1..(i - 1) : p[j] # "-") - 1)
    ELSE p

RECURSIVE DigitsValue(_, _)
DigitsValue(acc, s) ==
    IF s = <<>> THEN acc ELSE DigitsValue(10 * acc + DigitVal(Head(s)), Tail(s))

\* int(s) of a string without "-", blanks or underscores: an optional "+"
\* and at least one decimal digit, else ValueError
int(s) ==
    LET body == IF s # <<>> /\ Head(s) = "+" THEN Tail(s) ELSE s
    IN  IF body # <<>> /\ \A i \in 1..Len(body) : IsDigit(body[i])
        THEN Returned(DigitsValue(0, body))
        ELSE Raised("ValueError")

\* year = int(period.split("-")[0])
ParseYear(p) == int(BeforeDash(p))

\* the period identifiers of the model; a TLA+ string is atomic, so Chars
\* spells each identifier out for the parse ("Q1-2007" is malformed)
Periods == {"2007-Q1", "2007-Q2", "2007-Q3", "1995-Q1", "1995-Q2", "Q1-2007"}

Chars ==
    [p \in Periods |->
        CASE p = "2007-Q1" -> <<"2", "0", "0", "7", "-", "Q", "1">>
          [] p = "2007-Q2" -> <<"2", "0", "0", "7", "-", "Q", "2">>
          [] p = "2007-Q3" -> <<"2", "0", "0", "7", "-", "Q", "3">>
          [] p = "1995-Q1" -> <<"1", "9", "9", "5", "-", "Q", "1">>
          [] p = "1995-Q2" -> <<"1", "9", "9", "5", "-", "Q", "2">>
          [] p = "Q1-2007" -> <<"Q", "1", "-", "2", "0", "0", "7">>]

\* ParseYear, tabulated over the periods of the model
YearTable == [p \in Periods |-> ParseYear(Chars[p])]

\* the (period, value) observations of one metric, in payload order
RECURSIVE Observations(_, _)
Observations(slots, metric) ==
    IF slots = <<>> THEN <<>>
    ELSE LET s == Head(slots)
             rest == Observations(Tail(slots), metric)
         IN  IF s[metric] = <<>> THEN rest
             ELSE <<[date |-> s.period, value |-> s[metric][1]]>> \o rest

\* a mutant of SetQuarterly: a repeated value of a period and metric makes
\* an entry of its own instead of replacing the earlier value
SetQuarterlyKeepAll(quarterly, date, metric, value) ==
    IF \E i \in 1..Len(quarterly) :
          quarterly[i].period = date /\ quarterly[i][metric] = <<>>
    THEN LET k == CHOOSE i \in 1..Len(quarterly) :
                     quarterly[i].period = date /\ quarterly[i][metric] = <<>>
         IN  [quarterly EXCEPT ![k][metric] = <<value>>]
    ELSE Append(quarterly,
                [[period |-> date, rppi |-> <<>>, cpi |-> <<>>]
                     EXCEPT ![metric] = <<value>>])

\* quarterly.setdefault(date, {}) ; quarterly[date][metric] = value
\* (an insertion-ordered dict: a list of [period, rppi, cpi])
SetQuarterly(quarterly, date, metric, value) ==
    IF \E i \in 1..Len(quarterly) : quarterly[i].period = date
    THEN [i \in 1..Len(quarterly) |->
            IF quarterly[i].period = date
            THEN [quarterly[i] EXCEPT ![metric] = <<value>>]
            ELSE quarterly[i]]
    ELSE Append(quarterly,
                [[period |-> date, rppi |-> <<>>, cpi |-> <<>>]
                     EXCEPT ![metric] = <<value>>])

RECURSIVE FillQuarterly(_, _, _)
FillQuarterly(quarterly, obs, metric) ==
    IF obs = <<>> THEN quarterly
    ELSE FillQuarterly(SetQuarterly(quarterly, Head(obs).date, metric, Head(obs).value),
                       Tail(obs), metric)

\* the two loops "for obs_key, obs_val in ...items()": RPPI, then CPI
Quarterly(slots) ==
    FillQuarterly(FillQuarterly(<<>>, Observations(slots, "rppi"), "rppi"),
                  Observations(slots, "cpi"), "cpi")

NewBucket(y) ==
    [year |-> y, rppi_total |-> 0, cpi_total |-> 0, rppi_count |-> 0, cpi_count |-> 0]

\* a mutant of AddToBucket: every period of the year is counted for both
\* metrics, whether or not it carries a value of the metric
AddToBucketCountAll(buckets, y, vals) ==
    LET have == \E i \in 1..Len(buckets) : buckets[i].year = y
        bs == IF have THEN buckets ELSE Append(buckets, NewBucket(y))
        add(b) ==
            [b EXCEPT !.rppi_total = IF vals.rppi # <<>> THEN @ + vals.rppi[1] ELSE @,
                      !.rppi_count = @ + 1,
                      !.cpi_total = IF vals.cpi # <<>> THEN @ + vals.cpi[1] ELSE @,
                      !.cpi_count = @ + 1]
    IN  [i \in 1..Len(bs) |-> IF bs[i].year = y THEN add(bs[i]) ELSE bs[i]]

\* bucket = annual.setdefault(year, {...}); totals and counts of the period
AddToBucket(buckets, y, vals) ==
    LET have == \E i \in 1..Len(buckets) : buckets[i].year = y
        bs == IF have THEN buckets ELSE Append(buckets, NewBucket(y))
        add(b) ==
            [b EXCEPT !.rppi_total = IF vals.rppi # <<>> THEN @ + vals.rppi[1] ELSE @,
                      !.rppi_count = IF vals.rppi # <<>> THEN @ + 1 ELSE @,
                      !.cpi_total = IF vals.cpi # <<>> THEN @ + vals.cpi[1] ELSE @,
                      !.cpi_count = IF vals.cpi # <<>> THEN @ + 1 ELSE @]
    IN  [i \in 1..Len(bs) |-> IF bs[i].year = y THEN add(bs[i]) ELSE bs[i]]

\* "for period, vals in quarterly.items()": st = [raised, value (buckets)].
\* catch: the body is inside try/except (ValueError, IndexError): continue
RECURSIVE AnnualLoop(_, _, _)
AnnualLoop(st, quarterly, catch) ==
    IF quarterly = <<>> \/ st.raised # "None" THEN st
    ELSE LET vals == Head(quarterly)
             y == YearTable[vals.period]
         IN  IF y.raised # "None"
             THEN IF catch THEN AnnualLoop(st, Tail(quarterly), catch)
                  ELSE Failed(y.raised)
             ELSE AnnualLoop(Returned(AddToBucket(st.value, y.value, vals)),
                             Tail(quarterly), catch)

\* "for year, a in annual.items()": the records of the years with at least
\* two values of each metric; st = [raised, value (records)]
RECURSIVE FinalLoop(_, _)
FinalLoop(st, buckets) ==
    IF buckets = <<>> \/ st.raised # "None" THEN st
    ELSE LET a == Head(buckets)
         IN  IF a.rppi_count < 2 \/ a.cpi_count < 2
             THEN FinalLoop(st, Tail(buckets))
             ELSE LET avgr == Rat(a.rppi_total, a.rppi_count)
                      avgc == Rat(a.cpi_total, a.cpi_count)
                      score == calculate_gphi_score(avgr, avgc)
                  IN  IF score.raised # "None" THEN Failed(score.raised)
                      ELSE FinalLoop(
                             Returned(Append(st.value,
                                [year |-> a.year,
                                 avg_rppi |-> Round2(avgr),
                                 avg_cpi |-> Round2(avgc),
                                 gphi_score |-> score.value,
                                 government_party |-> _get_government_party(a.year)])),
                             Tail(buckets))

\* final.sort(key=lambda x: x["year"]): a stable sort
RECURSIVE SortByYear(_)
SortByYear(rows) ==
    IF rows = <<>> THEN <<>>
    ELSE LET low == {i \in 1..Len(rows) : \A j \in 1..Len(rows) : rows[i].year <= rows[j].year}
             k == CHOOSE i \in low : \A j \in low : i <= j
         IN  <<rows[k]>> \o SortByYear(SubSeq(rows, 1, k - 1) \o SubSeq(rows, k + 1, Len(rows)))

\* the body common to the four aggregators, from the quarterly dict on
Aggregate(slots, catch, sorted) ==
    LET buckets == AnnualLoop(Returned(<<>>), Quarterly(slots), catch)
        recs == IF buckets.raised # "None" THEN buckets
                ELSE FinalLoop(Returned(<<>>), buckets.value)
    IN  IF recs.raised = "None" /\ sorted THEN Returned(SortByYear(recs.value))
        ELSE recs

\* transform_abs of build_data.py
transform_abs_build(d) ==
    CASE d.shape \in {"None", "Empty", "NoDataSets"} -> Returned(<<>>)
      [] d.shape \in {"NoSeries", "NoStructure"} -> Returned(<<>>)   \* except KeyError
      [] d.shape = "NoTimePeriod" -> Failed("IndexError")           \* ["observation"][0]
      [] OTHER -> Aggregate(d.slots, FALSE, TRUE)

\* transform_abs of OLD APP.py
transform_abs_old(d) ==
    CASE d.shape \in {"None", "Empty", "NoDataSets"} -> Returned(<<>>)
      [] d.shape \in {"NoSeries", "NoStructure"} -> Returned(<<>>)   \* except KeyError
      [] d.shape = "NoTimePeriod" -> Failed("IndexError")           \* ["observation"][0]
      [] OTHER -> Aggregate(d.slots, FALSE, TRUE)

\* transform_abs of score_calculator.py
transform_abs(d) ==
    CASE d.shape \in {"None", "Empty"} -> Returned(<<>>)
      [] d.shape \in {"NoDataSets", "NoStructure"} -> Failed("KeyError")
      [] d.shape = "NoTimePeriod" -> Returned(<<>>)
      [] OTHER -> Aggregate(d.slots, FALSE, TRUE)      \* "NoSeries": no series to loop over

\* _transform_abs_data of main.py
_transform_abs_data(d) ==
    CASE d.shape = "None" -> Failed("AttributeError")  \* raw_data.get on None
      [] d.shape \in {"Empty", "NoDataSets", "NoSeries"} -> Returned(<<>>)
      [] d.shape \in {"NoStructure", "NoTimePeriod"} -> Returned(<<>>)
      [] OTHER -> Aggregate(d.slots, TRUE, FALSE)

\* the outcome of the aggregator named v on payload d
Outcome(v, d) ==
    CASE v = "OLD APP.py" -> transform_abs_old(d)
      [] v = "build_data.py" -> transform_abs_build(d)
      [] v = "score_calculator.py" -> transform_abs(d)
      [] v = "main.py" -> _transform_abs_data(d)

---------------------------------------------------------------------------
(* Serving layer: the load operation of the three servers and build_json.   *)
(*                                                                         *)
(* The load operation fetches the upstream payload, aggregates it, groups  *)
(* the annual records into terms, sorts the terms and replaces the cache.  *)
(* What the fetch and the aggregator give is an input of the operation:    *)
(* up = [fetched, annual], with fetched FALSE when the fetch function      *)
(* returned nothing and annual the outcome of the aggregator on the        *)
(* payload (the aggregators themselves are specified above).  The kind of  *)
(* an answer is "cached", "fresh", "stale", "written" (build_json),        *)
(* "HTTP500" (HTTPException) or the name of the exception that escapes.    *)
(***************************************************************************)

CACHE_TTL == 3600

\* a mutant of the sort: ascending by score
SortByScoreAsc(ts) ==
    LET RECURSIVE asc(_)
        asc(rest) ==
            IF rest = <<>> THEN <<>>
            ELSE LET low == {i \in 1..Len(rest) : \A j \in 1..Len(rest) :
                                rest[i].average_gphi_score <= rest[j].average_gphi_score}
                     k == CHOOSE i \in low : \A j \in low : i <= j
                 IN  <<rest[k]>> \o asc(SubSeq(rest, 1, k - 1) \o SubSeq(rest, k + 1, Len(rest)))
    IN  asc(ts)

\* terms.sort(key=lambda t: t["average_gphi_score"], reverse=True): stable,
\* terms of equal score keep their order
RECURSIVE SortByScoreDesc(_)
SortByScoreDesc(ts) ==
    IF ts = <<>> THEN <<>>
    ELSE LET high == {i \in 1..Len(ts) : \A j \in 1..Len(ts) :
                         ts[i].average_gphi_score >= ts[j].average_gphi_score}
             k == CHOOSE i \in high : \A j \in high : i <= j
         IN  <<ts[k]>> \o SortByScoreDesc(SubSeq(ts, 1, k - 1) \o SubSeq(ts, k + 1, Len(ts)))

\* if CACHE and (time.time() - LAST_FETCH) < CACHE_TTL
CacheIsValid == CACHE # <<>> /\ (now - LAST_FETCH) < CACHE_TTL

\* what the load operation answers and the cache it leaves
Answer(kind, body, cache, last) ==
    [kind |-> kind, body |-> body, CACHE |-> cache, LAST_FETCH |-> last]

\* the pipeline after the fetch: group, sort, replace the cache
Install(rows) ==
    LET sorted == SortByScoreDesc(calculate_government_terms(rows))
    IN  Answer("fresh", sorted, sorted, now)

\* load_and_cache_data of main.py, after the cache test
load_and_cache_data(up) ==
    IF ~up.fetched \/ up.annual.raised # "None" \/ up.annual.value = <<>>
    THEN IF CACHE # <<>>                                \* except Exception
         THEN Answer("stale", CACHE, CACHE, LAST_FETCH)
         ELSE Answer("HTTP500", <<>>, CACHE, LAST_FETCH)
    ELSE Install(up.annual.value)

\* a mutant of load_data: an empty record list is not a failure, its empty
\* term list is installed
LoadDataInstallEmpty(up) ==
    IF ~up.fetched THEN Answer("HTTP500", <<>>, CACHE, LAST_FETCH)
    ELSE IF up.annual.raised # "None"
    THEN Answer(up.annual.raised, <<>>, CACHE, LAST_FETCH)
    ELSE Install(up.annual.value)

\* load_data of score_calculator.py, after the cache test
load_data(up) ==
    IF ~up.fetched THEN Answer("HTTP500", <<>>, CACHE, LAST_FETCH)
    ELSE IF up.annual.raised # "None"
    THEN Answer(up.annual.raised, <<>>, CACHE, LAST_FETCH)
    ELSE IF up.annual.value = <<>> THEN Answer("HTTP500", <<>>, CACHE, LAST_FETCH)
    ELSE Install(up.annual.value)

\* load_data of OLD APP.py, after the cache test
load_data_old(up) ==
    IF ~up.fetched THEN Answer("HTTP500", <<>>, CACHE, LAST_FETCH)
    ELSE IF up.annual.raised # "None"
    THEN Answer(up.annual.raised, <<>>, CACHE, LAST_FETCH)
    ELSE Install(up.annual.value)

\* build_json of build_data.py: no cache, the sorted terms are written
build_json(up) ==
    IF ~up.fetched THEN Answer("RuntimeError", <<>>, CACHE, LAST_FETCH)
    ELSE IF up.annual.raised # "None"
    THEN Answer(up.annual.raised, <<>>, CACHE, LAST_FETCH)
    ELSE Answer("written", SortByScoreDesc(calculate_government_terms(up.annual.value)),
                CACHE, LAST_FETCH)

Servers == {"main.py", "score_calculator.py", "OLD APP.py"}

Load(v, up) ==
    CASE v = "main.py" -> load_and_cache_data(up)
      [] v = "score_calculator.py" -> load_data(up)
      [] v = "OLD APP.py" -> load_data_old(up)

---------------------------------------------------------------------------
(* Values the variables not used by a specification keep *)

NoScore == Returned(0)

IdleParty == year = FirstYear /\ party = "NotCalled"
IdleScore == avg_rppi = Rat(0, 1) /\ avg_cpi = Rat(1, 1) /\ gphi = NoScore
IdleTerms == annual = <<>> /\ terms = <<>>
IdleAgg ==
    /\ abs_data = [shape |-> "None", slots |-> <<>>]
    /\ variant = "none"
    /\ final = Returned(<<>>)

IdleRequest == [pc |-> "idle", at |-> 0, last |-> 0]
NoUpstream == [fetched |-> FALSE, annual |-> Returned(<<>>)]
NoResponse ==
    [path |-> "none", kind |-> "none", body |-> <<>>, at |-> 0, last |-> 0,
     up |-> NoUpstream, held |-> <<>>]

\* no fetch was started: n loads so far, the metric and attempt the fetch
\* is at, the payload got per metric (<<>>: none), the log of its steps
IdleFetch ==
    [pc |-> "idle", n |-> 0, metric |-> 1, attempt |-> 1,
     got |-> << <<>>, <<>> >>, log |-> <<>>]

IdleServe ==
    /\ again = Returned(<<>>)
    /\ CACHE = <<>>
    /\ LAST_FETCH = 0
    /\ now = 0
    /\ req = <<>>
    /\ resp = NoResponse
    /\ fetch = IdleFetch

---------------------------------------------------------------------------
(* Specification of the party lookup: one call on a chosen year *)

InitParty ==
    /\ pc = "idle"
    /\ year \in MinYear..MaxYear
    /\ party = "NotCalled"
    /\ IdleScore
    /\ IdleTerms
    /\ IdleAgg
    /\ IdleServe

CallGetGovernmentParty ==
    /\ pc = "idle"
    /\ party' = _get_government_party(year)
    /\ pc' = "done"
    /\ UNCHANGED <<year, avg_rppi, avg_cpi, gphi, annual, terms, abs_data, variant, final>>
    /\ UNCHANGED serveVars

NextParty == CallGetGovernmentParty

SpecParty == InitParty /\ [][NextParty]_vars

---------------------------------------------------------------------------
(* Specification of the score function: one call on chosen averages *)

RppiNums == {-100, 0, 100, 301, 753, 25001}
CpiNums == {-2, -1, 0, 1, 2, 3, 100}

InitScore ==
    /\ pc = "idle"
    /\ avg_rppi \in {Rat(n, d) : n \in RppiNums, d \in 1..MaxDen}
    /\ avg_cpi \in {Rat(n, d) : n \in CpiNums, d \in 1..MaxDen}
    /\ gphi = NoScore
    /\ IdleParty
    /\ IdleTerms
    /\ IdleAgg
    /\ IdleServe

CallCalculateGphiScore ==
    /\ pc = "idle"
    /\ gphi' = calculate_gphi_score(avg_rppi, avg_cpi)
    /\ pc' = "done"
    /\ UNCHANGED <<year, party, avg_rppi, avg_cpi, annual, terms, abs_data, variant, final>>
    /\ UNCHANGED serveVars

NextScore == CallCalculateGphiScore

SpecScore == InitScore /\ [][NextScore]_vars

---------------------------------------------------------------------------
(* Specification of the term grouper: the caller builds a year-ascending   *)
(* list of annual records, then calls calculate_government_terms on it     *)

Parties == {"Labor", "Liberal/National", "Unknown"}
ScoreValues == {9950, 9961}

LastRowYear == IF annual = <<>> THEN FirstYear - 1 ELSE annual[Len(annual)].year

AppendRow ==
    /\ pc = "idle"
    /\ \E y \in FirstYear..LastYear, p \in Parties, s \in ScoreValues :
          /\ y > LastRowYear
          /\ annual' = Append(annual, [year |-> y, gphi_score |-> s,
                                       government_party |-> p])
    /\ UNCHANGED <<pc, year, party, avg_rppi, avg_cpi, gphi, terms, abs_data, variant, final>>
    /\ UNCHANGED serveVars

CallCalculateGovernmentTerms ==
    /\ pc = "idle"
    /\ terms' = calculate_government_terms(annual)
    /\ pc' = "done"
    /\ UNCHANGED <<year, party, avg_rppi, avg_cpi, gphi, annual, abs_data, variant, final>>
    /\ UNCHANGED serveVars

InitTerms ==
    /\ pc = "idle"
    /\ IdleParty
    /\ IdleScore
    /\ IdleTerms
    /\ IdleAgg
    /\ IdleServe

NextTerms == AppendRow \/ CallCalculateGovernmentTerms

SpecTerms == InitTerms /\ [][NextTerms]_vars

---------------------------------------------------------------------------
(* Specification of the aggregator: the upstream payload is built slot by  *)
(* slot, then one of the four aggregators is called on it                  *)

Shapes == {"None", "Empty", "NoDataSets", "NoSeries", "NoStructure",
           "NoTimePeriod", "Ok"}

\* the observation lists of one slot, <<rppi, cpi>>: both metrics, RPPI
\* only, CPI only
FullObs == << <<100>>, <<100>> >>
SlotObs == {FullObs, << <<103>>, <<>> >>, << <<>>, <<0>> >>}
Malformed == {p \in Periods : YearTable[p].raised # "None"}

InitAgg ==
    /\ pc = "idle"
    /\ abs_data \in {[shape |-> sh, slots |-> <<>>] : sh \in Shapes}
    /\ variant = "none"
    /\ final = Returned(<<>>)
    /\ IdleParty
    /\ IdleScore
    /\ IdleTerms
    /\ IdleServe

\* the payload lists one more period; only a payload that has both its
\* series and its time dimension can hold observations.  A malformed period
\* is rejected before its values are read, so it is listed with one
\* observation pattern only
AddSlot ==
    /\ pc = "idle"
    /\ abs_data.shape = "Ok"
    /\ Len(abs_data.slots) < MaxSlots
    /\ \E p \in Periods, o \in SlotObs :
          /\ p \in Malformed => o = FullObs
          /\ abs_data' = [abs_data EXCEPT
                             !.slots = Append(@, [period |-> p, rppi |-> o[1], cpi |-> o[2]])]
    /\ UNCHANGED <<pc, variant, final, year, party, avg_rppi, avg_cpi, gphi, annual, terms>>
    /\ UNCHANGED serveVars

\* a mutant of the call: the aggregator consumes the observations of the
\* payload it is given
CallConsuming(v, outcome) ==
    /\ pc = "idle"
    /\ variant' = v
    /\ final' = outcome
    /\ pc' = "done"
    /\ abs_data' = [abs_data EXCEPT !.slots = <<>>]
    /\ UNCHANGED <<year, party, avg_rppi, avg_cpi, gphi, annual, terms>>
    /\ UNCHANGED serveVars

Call(v, outcome) ==
    /\ pc = "idle"
    /\ variant' = v
    /\ final' = outcome
    /\ pc' = "done"
    /\ UNCHANGED <<abs_data, year, party, avg_rppi, avg_cpi, gphi, annual, terms>>
    /\ UNCHANGED serveVars

CallTransformAbsOld == Call("OLD APP.py", transform_abs_old(abs_data))
CallTransformAbsBuild == Call("build_data.py", transform_abs_build(abs_data))
CallTransformAbs == Call("score_calculator.py", transform_abs(abs_data))
CallTransformAbsData == Call("main.py", _transform_abs_data(abs_data))

NextAgg ==
    \/ AddSlot
    \/ CallTransformAbsOld
    \/ CallTransformAbsBuild
    \/ CallTransformAbs
    \/ CallTransformAbsData

SpecAgg == InitAgg /\ [][NextAgg]_vars

---------------------------------------------------------------------------
(* Specification of the serving layer: requests arrive at one of the       *)
(* servers while time passes.  A request tests the cache on arrival and    *)
(* either is answered from it or goes on to refresh; the requests are      *)
(* handled by separate threads, so the steps of two requests interleave.   *)
(* Under build_data.py there is no server: build_json runs.                *)

Requests == 1..MaxRequests
TickSteps == {CACHE_TTL - 1, CACHE_TTL}

Row(y, p, sc) == [year |-> y, gphi_score |-> sc, government_party |-> p]

\* the record lists the aggregator returns in the model: none, one record
\* of unknown party, two and three records of alternating parties
AnnualLists ==
    { <<>>,
      << Row(FirstYear, "Unknown", 9950) >>,
      << Row(FirstYear, "Labor", 9950), Row(FirstYear + 1, "Liberal/National", 9961) >>,
      << Row(FirstYear, "Labor", 9961), Row(FirstYear + 1, "Liberal/National", 9950) >>,
      << Row(FirstYear, "Labor", 9950), Row(FirstYear + 1, "Liberal/National", 9961),
         Row(FirstYear + 2, "Labor", 9950) >> }

Upstream ==
    {NoUpstream}
    \union {[fetched |-> TRUE, annual |-> Failed("ValueError")]}
    \union {[fetched |-> TRUE, annual |-> Returned(rows)] : rows \in AnnualLists}

InitServe ==
    /\ pc = "idle"
    /\ IdleParty
    /\ IdleScore
    /\ IdleTerms
    /\ abs_data = [shape |-> "None", slots |-> <<>>]
    /\ variant \in Servers \union {"build_data.py"}
    /\ final = Returned(<<>>)
    /\ again = Returned(<<>>)
    /\ CACHE = <<>>
    /\ LAST_FETCH = 0
    /\ now = StartTime
    /\ req = [r \in Requests |-> IdleRequest]
    /\ resp = NoResponse
    /\ fetch = IdleFetch

Tick ==
    /\ \E d \in TickSteps :
          /\ now + d <= StartTime + MaxElapsed
          /\ now' = now + d
    /\ UNCHANGED <<fetch, again, CACHE, LAST_FETCH, req, resp>>
    /\ UNCHANGED pipelineVars

\* a request arrives: the cache test at the head of the load operation
Arrive(r) ==
    /\ variant \in Servers
    /\ req[r].pc = "idle"
    /\ IF CacheIsValid
       THEN /\ resp' = [path |-> "cache", kind |-> "cached", body |-> CACHE,
                        at |-> now, last |-> LAST_FETCH,
                        up |-> NoUpstream, held |-> CACHE]
            /\ UNCHANGED req
       ELSE /\ req' = [req EXCEPT ![r] = [pc |-> "refreshing", at |-> now,
                                          last |-> LAST_FETCH]]
            /\ UNCHANGED resp
    /\ UNCHANGED <<fetch, again, CACHE, LAST_FETCH, now>>
    /\ UNCHANGED pipelineVars

\* the request runs the refresh path to its end: fetch, transform, group,
\* sort, replace the cache, answer
Refresh(r) ==
    /\ req[r].pc = "refreshing"
    /\ \E up \in Upstream :
          LET a == Load(variant, up)
          IN  /\ CACHE' = a.CACHE
              /\ LAST_FETCH' = a.LAST_FETCH
              /\ resp' = [path |-> "refresh", kind |-> a.kind, body |-> a.body,
                          at |-> req[r].at, last |-> req[r].last,
                          up |-> up, held |-> CACHE]
    /\ req' = [req EXCEPT ![r] = IdleRequest]
    /\ UNCHANGED <<fetch, again, now>>
    /\ UNCHANGED pipelineVars

BuildJson ==
    /\ variant = "build_data.py"
    /\ \E up \in Upstream :
          LET a == build_json(up)
          IN  resp' = [path |-> "build", kind |-> a.kind, body |-> a.body,
                       at |-> now, last |-> LAST_FETCH, up |-> up, held |-> CACHE]
    /\ UNCHANGED <<fetch, again, CACHE, LAST_FETCH, now, req>>
    /\ UNCHANGED pipelineVars

NextServe ==
    \/ Tick
    \/ \E r \in Requests : Arrive(r)
    \/ \E r \in Requests : Refresh(r)
    \/ BuildJson

SpecServe == InitServe /\ [][NextServe]_vars

---------------------------------------------------------------------------
(* Specification of repeated aggregation: an aggregator is called on a     *)
(* payload, the server of the same file handles requests (or build_json    *)
(* runs), and the aggregator is called on the payload again                *)

SlotChoices ==
    {[period |-> p, rppi |-> o[1], cpi |-> o[2]] :
        p \in Periods \ Malformed, o \in SlotObs}
    \union {[period |-> p, rppi |-> FullObs[1], cpi |-> FullObs[2]] : p \in Malformed}

IdemPayloads ==
    {[shape |-> sh, slots |-> <<>>] : sh \in Shapes}
    \union {[shape |-> "Ok", slots |-> sl] :
               sl \in UNION {[1..k -> SlotChoices] : k \in 1..MaxIdemSlots}}

InitIdem ==
    /\ pc = "idle"
    /\ IdleParty
    /\ IdleScore
    /\ IdleTerms
    /\ abs_data \in IdemPayloads
    /\ variant = "none"
    /\ final = Returned(<<>>)
    /\ again = Returned(<<>>)
    /\ CACHE = <<>>
    /\ LAST_FETCH = 0
    /\ now = StartTime
    /\ req = [r \in Requests |-> IdleRequest]
    /\ resp = NoResponse
    /\ fetch = IdleFetch

\* a request is handled from its arrival to its answer
HandleRequest ==
    /\ pc = "done"
    /\ variant \in Servers
    /\ IF CacheIsValid
       THEN /\ resp' = [path |-> "cache", kind |-> "cached", body |-> CACHE,
                        at |-> now, last |-> LAST_FETCH,
                        up |-> NoUpstream, held |-> CACHE]
            /\ UNCHANGED <<CACHE, LAST_FETCH>>
       ELSE \E up \in Upstream :
               LET a == Load(variant, up)
               IN  /\ CACHE' = a.CACHE
                   /\ LAST_FETCH' = a.LAST_FETCH
                   /\ resp' = [path |-> "refresh", kind |-> a.kind, body |-> a.body,
                               at |-> now, last |-> LAST_FETCH,
                               up |-> up, held |-> CACHE]
    /\ UNCHANGED <<fetch, again, now, req>>
    /\ UNCHANGED pipelineVars

\* the second call of the aggregator that was called first
CallAgain(v, outcome) ==
    /\ pc = "done"
    /\ variant = v
    /\ again' = outcome
    /\ pc' = "twice"
    /\ UNCHANGED <<CACHE, LAST_FETCH, now, req, resp, fetch>>
    /\ UNCHANGED <<year, party, avg_rppi, avg_cpi, gphi, annual, terms,
                   abs_data, variant, final>>

CallAgainTransformAbsOld == CallAgain("OLD APP.py", transform_abs_old(abs_data))
CallAgainTransformAbsBuild == CallAgain("build_data.py", transform_abs_build(abs_data))
CallAgainTransformAbs == CallAgain("score_calculator.py", transform_abs(abs_data))
CallAgainTransformAbsData == CallAgain("main.py", _transform_abs_data(abs_data))

NextIdem ==
    \/ CallTransformAbsOld
    \/ CallTransformAbsBuild
    \/ CallTransformAbs
    \/ CallTransformAbsData
    \/ HandleRequest
    \/ BuildJson
    \/ CallAgainTransformAbsOld
    \/ CallAgainTransformAbsBuild
    \/ CallAgainTransformAbs
    \/ CallAgainTransformAbsData

SpecIdem == InitIdem /\ [][NextIdem]_vars

---------------------------------------------------------------------------
(***************************************************************************)
(* The upstream fetch.  fetch_abs_data (OLD APP.py, build_data.py,          *)
(* score_calculator.py) and fetch_housing_data (main.py) request the two    *)
(* metrics of DATAFLOWS in turn, each in a retry loop.  One HTTP attempt    *)
(* and one time.sleep are one step each; the log lists them in order.  The  *)
(* payload of a metric is the list of the periods it has a value for.      *)
(***************************************************************************)

MAX_RETRIES == 3

\* DATAFLOWS.items(): RPPI, then CPI
Metrics == <<"rppi", "cpi">>
MetricIndex == 1..Len(Metrics)

\* time.sleep(2 ** attempt); attempt counts from 1 (from 0 in main.py)
Backoff(v, attempt) ==
    IF v = "main.py" THEN 2 ^ (attempt - 1) ELSE 2 ^ attempt

\* the retry loop of the metric is left: the loop of the next metric starts,
\* or the fetch returns after the last one
NextMetric(f) ==
    IF f.metric < Len(Metrics)
    THEN [f EXCEPT !.metric = @ + 1, !.attempt = 1]
    ELSE [f EXCEPT !.pc = "returned"]

\* the try block ran to its end with payload p: the payload is kept, break
AttemptSucceeded(f, p) ==
    NextMetric([f EXCEPT !.got[f.metric] = <<p>>,
                         !.log = Append(@, [metric |-> f.metric, kind |-> "ok"])])

\* a mutant of AttemptFailed: the backoff sleep follows every failure, the
\* last one included, and the loop goes on
AttemptFailedSleepAlways(v, f) ==
    [f EXCEPT !.pc = "sleep",
              !.log = Append(@, [metric |-> f.metric, kind |-> "fail"])]

\* the attempt raised: sleep before the next attempt; after the last one
\* OLD APP.py and build_data.py return None ("if not success"), main.py and
\* score_calculator.py go on to the next metric
AttemptFailed(v, f) ==
    LET g == [f EXCEPT !.log = Append(@, [metric |-> f.metric, kind |-> "fail"])]
    IN  IF f.attempt < MAX_RETRIES THEN [g EXCEPT !.pc = "sleep"]
        ELSE IF v \in {"OLD APP.py", "build_data.py"} THEN [g EXCEPT !.pc = "returned"]
        ELSE NextMetric(g)

\* the value the fetch returns is None
ReturnsNone(v, got) ==
    IF v \in {"OLD APP.py", "build_data.py"}
    THEN \E m \in MetricIndex : got[m] = <<>>          \* "if not success: return None"
    ELSE \A m \in MetricIndex : got[m] = <<>>          \* nothing was combined

\* the observations of one metric as payload slots (index value 100)
MetricSlots(metric, g) ==
    IF g = <<>> THEN <<>>
    ELSE [i \in 1..Len(g[1]) |->
            [[period |-> g[1][i], rppi |-> <<>>, cpi |-> <<>>] EXCEPT ![metric] = <<100>>]]

\* the combined payload: the series of the metrics that were fetched
Combined(got) ==
    [shape |-> "Ok",
     slots |-> MetricSlots(Metrics[1], got[1]) \o MetricSlots(Metrics[2], got[2])]

\* what the load operation has after "raw = fetch...()" and the transform
UpstreamOf(v, got) ==
    IF ReturnsNone(v, got) THEN NoUpstream
    ELSE [fetched |-> TRUE, annual |-> Outcome(v, Combined(got))]

---------------------------------------------------------------------------
(* Specification of the fetch: up to MaxLoads runs of the load operation   *)
(* (or of build_json), each with its fetch taken step by step              *)

\* the payloads an attempt can receive for a metric
MetricPayloads ==
    { <<>>, <<"2007-Q1">>, <<"2007-Q1", "2007-Q2">>, <<"1995-Q1", "1995-Q2">>,
      <<"Q1-2007">> }

InitFetch ==
    /\ pc = "idle"
    /\ IdleParty
    /\ IdleScore
    /\ IdleTerms
    /\ abs_data = [shape |-> "None", slots |-> <<>>]
    /\ variant \in Servers \union {"build_data.py"}
    /\ final = Returned(<<>>)
    /\ again = Returned(<<>>)
    /\ CACHE = <<>>
    /\ LAST_FETCH = 0
    /\ now = StartTime
    /\ req = <<>>
    /\ resp = NoResponse
    /\ fetch = IdleFetch

FetchIsOver == fetch.pc \in {"idle", "loaded"}

\* the cache expires while no load is running
Expire ==
    /\ FetchIsOver
    /\ fetch.n < MaxLoads
    /\ CacheIsValid
    /\ now' = now + CACHE_TTL
    /\ UNCHANGED <<again, CACHE, LAST_FETCH, req, resp, fetch>>
    /\ UNCHANGED pipelineVars

\* the load operation finds the cache valid and returns it
ServeCached ==
    /\ FetchIsOver
    /\ variant \in Servers
    /\ CacheIsValid
    /\ resp' = [path |-> "cache", kind |-> "cached", body |-> CACHE,
                at |-> now, last |-> LAST_FETCH, up |-> NoUpstream, held |-> CACHE]
    /\ UNCHANGED <<again, CACHE, LAST_FETCH, now, req, fetch>>
    /\ UNCHANGED pipelineVars

\* the load operation finds the cache invalid (build_json has none) and
\* calls the fetch: the retry loop of the first metric starts
StartFetch ==
    /\ FetchIsOver
    /\ fetch.n < MaxLoads
    /\ variant \in Servers => ~CacheIsValid
    /\ fetch' = [IdleFetch EXCEPT !.pc = "attempt", !.n = fetch.n + 1]
    /\ UNCHANGED <<again, CACHE, LAST_FETCH, now, req, resp>>
    /\ UNCHANGED pipelineVars

\* one pass of the try block: requests.get, raise_for_status, json
Attempt ==
    /\ fetch.pc = "attempt"
    /\ \/ \E p \in MetricPayloads : fetch' = AttemptSucceeded(fetch, p)
       \/ fetch' = AttemptFailed(variant, fetch)
    /\ UNCHANGED <<again, CACHE, LAST_FETCH, now, req, resp>>
    /\ UNCHANGED pipelineVars

\* time.sleep(delay), then the next pass of the loop
Sleep ==
    /\ fetch.pc = "sleep"
    /\ fetch' = [fetch EXCEPT !.pc = "attempt", !.attempt = @ + 1,
                              !.log = Append(@, [metric |-> fetch.metric,
                                                 kind |-> "sleep"])]
    /\ now' = now + Backoff(variant, fetch.attempt)
    /\ UNCHANGED <<again, CACHE, LAST_FETCH, req, resp>>
    /\ UNCHANGED pipelineVars

\* the rest of the load operation of a server once the fetch has returned
FinishLoad ==
    /\ fetch.pc = "returned"
    /\ variant \in Servers
    /\ LET up == UpstreamOf(variant, fetch.got)
           a == Load(variant, up)
       IN  /\ CACHE' = a.CACHE
           /\ LAST_FETCH' = a.LAST_FETCH
           /\ resp' = [path |-> "refresh", kind |-> a.kind, body |-> a.body,
                       at |-> now, last |-> LAST_FETCH, up |-> up, held |-> CACHE]
    /\ fetch' = [fetch EXCEPT !.pc = "loaded"]
    /\ UNCHANGED <<again, now, req>>
    /\ UNCHANGED pipelineVars

\* the rest of build_json once the fetch has returned
FinishBuild ==
    /\ fetch.pc = "returned"
    /\ variant = "build_data.py"
    /\ LET up == UpstreamOf(variant, fetch.got)
           a == build_json(up)
       IN  resp' = [path |-> "build", kind |-> a.kind, body |-> a.body,
                    at |-> now, last |-> LAST_FETCH, up |-> up, held |-> CACHE]
    /\ fetch' = [fetch EXCEPT !.pc = "loaded"]
    /\ UNCHANGED <<again, CACHE, LAST_FETCH, now, req>>
    /\ UNCHANGED pipelineVars

NextFetch ==
    \/ Expire
    \/ ServeCached
    \/ StartFetch
    \/ Attempt
    \/ Sleep
    \/ FinishLoad
    \/ FinishBuild

SpecFetch == InitFetch /\ [][NextFetch]_vars

\* the thread that runs the fetch keeps running: every HTTP attempt ends
\* (the requests carry a timeout) and every sleep ends
SpecFetchFair ==
    /\ SpecFetch
    /\ WF_vars(Attempt)
    /\ WF_vars(Sleep)

---------------------------------------------------------------------------
(* Claims about the party lookup (SpecParty) *)

HistoryIndex == 1..Len(GOVERNMENT_HISTORY)

\* the entries whose start_year is <= y
Qualifying(y) == {i \in HistoryIndex : GOVERNMENT_HISTORY[i].start_year <= y}

\* C1: for every year, the lookup returns the party of the entry with the
\* greatest start_year <= year, and "Unknown" exactly when no entry qualifies.
C1_LatestRegime ==
    pc = "done" =>
        /\ (party = "Unknown") <=> (Qualifying(year) = {})
        /\ \A i \in Qualifying(year) :
              (\A j \in Qualifying(year) :
                  GOVERNMENT_HISTORY[j].start_year <= GOVERNMENT_HISTORY[i].start_year)
              => party = GOVERNMENT_HISTORY[i].party

\* C2: the lookup returns "Liberal/National" for 2010 and "Unknown" for 1990.
C2_Examples ==
    pc = "done" =>
        /\ (year = 2010 => party = "Liberal/National")
        /\ (year = 1990 => party = "Unknown")

C2_Witness == pc = "done" /\ year = 2010 /\ party = "Liberal/National"

---------------------------------------------------------------------------
(* Claims about the score function (SpecScore) *)

\* C3: for every avg_a and every avg_b <= 0 the score function returns 0.0
\* and does not raise.
C3_NonPositiveDivisorFloor ==
    (pc = "done" /\ avg_cpi.n <= 0) => gphi = Returned(0)

\* 100 - (avg_rppi / avg_cpi) * 0.4 as an exact rational (avg_cpi > 0)
ExactScore ==
    Rat(1000 * avg_rppi.d * avg_cpi.n - 4 * avg_rppi.n * avg_cpi.d,
        10 * avg_rppi.d * avg_cpi.n)

\* h hundredths is the rational x rounded to two decimals
IsRounded2(h, x) ==
    LET diff == x.d * h - 100 * x.n
    IN  2 * diff <= x.d /\ 2 * (0 - diff) <= x.d

\* avg_rppi / avg_cpi > 250 (avg_cpi > 0)
RatioAbove250 == avg_rppi.n * avg_cpi.d > 250 * avg_rppi.d * avg_cpi.n

\* C14 as stated: for avg_b > 0 the score function returns
\* 100 - (avg_a / avg_b) * 0.4 rounded to 2 decimals, unclamped;
\* score(100, 100) = 99.6, and every ratio above 250 gives a negative score.
C14_AsStated ==
    (pc = "done" /\ avg_cpi.n > 0) =>
        /\ gphi.raised = "None"
        /\ IsRounded2(gphi.value, ExactScore)
        /\ (avg_rppi = Rat(100, 1) /\ avg_cpi = Rat(100, 1)) => gphi.value = 9960
        /\ RatioAbove250 => gphi.value < 0

\* C14, amended: for avg_b > 0 the score function returns
\* 100 - (avg_a / avg_b) * 0.4 rounded to 2 decimals, unclamped;
\* score(100, 100) = 99.6; a ratio above 250 gives a score <= 0, and a
\* negative one as soon as 100 - ratio * 0.4 is below -0.005.
C14_UnclampedFormula ==
    (pc = "done" /\ avg_cpi.n > 0) =>
        /\ gphi.raised = "None"
        /\ IsRounded2(gphi.value, ExactScore)
        /\ (avg_rppi = Rat(100, 1) /\ avg_cpi = Rat(100, 1)) => gphi.value = 9960
        /\ RatioAbove250 => gphi.value <= 0
        /\ 200 * ExactScore.n < 0 - ExactScore.d => gphi.value < 0

\* a ratio of 251 scores -0.4
C14_Witness ==
    /\ pc = "done"
    /\ avg_rppi = Rat(753, 1) /\ avg_cpi = Rat(3, 1)
    /\ gphi = Returned(-40)

---------------------------------------------------------------------------
(* Claims about the term grouper (SpecTerms) *)

RowIndex == 1..Len(annual)
TermIndex == 1..Len(terms)
HasUnknown == \E i \in RowIndex : annual[i].government_party = "Unknown"

PartiesOf(rows) == [i \in 1..Len(rows) |-> rows[i].government_party]
YearsOf(rows) == [i \in 1..Len(rows) |-> rows[i].year]

\* C4: an "Unknown" record ends the term in progress and belongs to no term:
\* no emitted term spans the year of an "Unknown" record, and parties
\* [A, A, Unknown, A] give two terms of 2 and 1 records.
C4_UnknownInterruptsRun ==
    pc = "done" =>
        /\ \A k \in TermIndex : \A i \in RowIndex :
              annual[i].government_party = "Unknown"
              => ~(terms[k].start_year < annual[i].year
                   /\ annual[i].year < terms[k].end_year)
        /\ PartiesOf(annual) = <<"Labor", "Labor", "Unknown", "Labor">>
           => /\ Len(terms) = 2
              /\ terms[1].duration_years = 2
              /\ terms[2].duration_years = 1

\* the indexes at which a maximal run of equal parties starts
RunStarts ==
    {i \in RowIndex :
        i = 1 \/ annual[i].government_party # annual[i - 1].government_party}

\* the last index of the run that starts at i
RunEnd(i) ==
    IF \E j \in RunStarts : j > i
    THEN (CHOOSE j \in RunStarts : j > i /\ \A h \in RunStarts : h > i => j <= h) - 1
    ELSE Len(annual)

\* C10: with no "Unknown" record, the grouper emits exactly one term per
\* maximal run of consecutive records of one party, in input order, with
\* start_year the run's first year and end_year the run's last year.
C10_OneTermPerRun ==
    (pc = "done" /\ ~HasUnknown) =>
        /\ Len(terms) = Cardinality(RunStarts)
        /\ \A i \in RunStarts :
              LET k == Cardinality({j \in RunStarts : j <= i})
              IN  /\ terms[k].government_party = annual[i].government_party
                  /\ terms[k].start_year = annual[i].year
                  /\ terms[k].end_year = annual[RunEnd(i)].year
                  /\ terms[k].duration_years = RunEnd(i) - i + 1
                  /\ terms[k].annual_metrics = SubSeq(annual, i, RunEnd(i))

\* parties [A, A, A, B, B] for 2005..2009 give {A, 2005, 2007, 3}, {B, 2008, 2009, 2}
C10_Witness ==
    /\ pc = "done"
    /\ YearsOf(annual) = <<2005, 2006, 2007, 2008, 2009>>
    /\ PartiesOf(annual) = <<"Labor", "Labor", "Labor",
                             "Liberal/National", "Liberal/National">>
    /\ Len(terms) = 2
    /\ terms[1].government_party = "Labor"
    /\ terms[1].start_year = 2005 /\ terms[1].end_year = 2007
    /\ terms[1].duration_years = 3
    /\ terms[2].government_party = "Liberal/National"
    /\ terms[2].start_year = 2008 /\ terms[2].end_year = 2009
    /\ terms[2].duration_years = 2

\* the input records that lie in term k: the records of a known party whose
\* year is within the term's years (the input is strictly ascending by year)
RowsIn(k) ==
    {i \in RowIndex :
        /\ annual[i].government_party # "Unknown"
        /\ terms[k].start_year <= annual[i].year
        /\ annual[i].year <= terms[k].end_year}

\* C11: in every emitted term all records carry the term's party, and two
\* terms adjacent in emission order have different parties or are separated
\* in the input by at least one "Unknown" record.
C11_TermPartyUniform ==
    pc = "done" =>
        /\ \A k \in TermIndex :
              \A j \in 1..Len(terms[k].annual_metrics) :
                  terms[k].annual_metrics[j].government_party = terms[k].government_party
        /\ \A k \in TermIndex : \A i \in RowsIn(k) :
              annual[i].government_party = terms[k].government_party
        /\ \A k \in TermIndex :
              k + 1 \in TermIndex =>
                 \/ terms[k].government_party # terms[k + 1].government_party
                 \/ \E i \in RowIndex :
                       /\ annual[i].government_party = "Unknown"
                       /\ terms[k].end_year < annual[i].year
                       /\ annual[i].year < terms[k + 1].start_year

\* an input with an "Unknown" record that gives two terms
C11_Witness ==
    /\ pc = "done"
    /\ PartiesOf(annual) = <<"Labor", "Unknown", "Labor", "Liberal/National">>
    /\ Len(terms) = 2
    /\ terms[1].government_party = "Labor"
    /\ terms[2].government_party = "Liberal/National"

\* C12: for year-ascending input, every emitted term has duration_years equal
\* to the number of its records (not end_year - start_year + 1), start_year
\* the year of its first record and end_year the year of its last record,
\* which is the maximum year among its records.
C12_TermBounds ==
    pc = "done" =>
        \A k \in TermIndex :
            LET m == terms[k].annual_metrics
            IN  /\ Len(m) >= 1
                /\ terms[k].duration_years = Len(m)
                /\ terms[k].duration_years = Cardinality(RowsIn(k))
                /\ terms[k].start_year = m[1].year
                /\ terms[k].end_year = m[Len(m)].year
                /\ \A j \in 1..Len(m) : m[j].year <= terms[k].end_year
                /\ \A j \in 1..Len(m) : \E i \in RowsIn(k) : m[j] = annual[i]

\* a term of two records whose years are two apart
C12_Witness ==
    /\ pc = "done"
    /\ \E k \in TermIndex :
          /\ terms[k].duration_years = 2
          /\ terms[k].end_year - terms[k].start_year + 1 = 3

RECURSIVE SumScores(_)
SumScores(is) ==
    IF is = {} THEN 0
    ELSE LET i == CHOOSE j \in is : TRUE
         IN  annual[i].gphi_score + SumScores(is \ {i})

\* C13: the average_score of every emitted term is the sum of the scores of
\* exactly the records in that term divided by their number, rounded to 2
\* decimals.
C13_TermAverage ==
    pc = "done" =>
        \A k \in TermIndex :
            /\ \A i \in RowIndex :
                  (i \in RowsIn(k)) <=>
                  (\E j \in 1..Len(terms[k].annual_metrics) :
                        terms[k].annual_metrics[j] = annual[i])
            /\ IsRounded2(terms[k].average_gphi_score,
                          Rat(SumScores(RowsIn(k)), 100 * Cardinality(RowsIn(k))))

\* a term of two records with scores 99.5 and 99.61 around an "Unknown" record
C13_Witness ==
    /\ pc = "done"
    /\ HasUnknown
    /\ \E k \in TermIndex :
          /\ terms[k].duration_years = 2
          /\ \E i \in RowIndex :
                /\ annual[i].government_party = "Unknown"
                /\ terms[k].start_year < annual[i].year
                /\ annual[i].year < terms[k].end_year
          /\ SumScores(RowsIn(k)) = 19911
          /\ terms[k].average_gphi_score \in {9955, 9956}

\* the indexes of the input records that form a run of a single record
SingleRecordRuns ==
    {i \in RunStarts : RunEnd(i) = i /\ annual[i].government_party # "Unknown"}

\* C15: the grouper returns for every input (no term is finalized with zero
\* records); the empty input gives the empty list, and a run of a single
\* record gives a term with duration_years = 1 and start_year = end_year.
C15_Total ==
    pc = "done" =>
        /\ annual = <<>> => terms = <<>>
        /\ \A k \in TermIndex :
              terms[k].duration_years >= 1 /\ Len(terms[k].annual_metrics) >= 1
        /\ \A i \in SingleRecordRuns :
              \E k \in TermIndex :
                  /\ terms[k].start_year = annual[i].year
                  /\ terms[k].end_year = annual[i].year
                  /\ terms[k].duration_years = 1

IsKnown(row) == row.government_party # "Unknown"

\* the input without its "Unknown" records
KnownRows == SelectSeq(annual, IsKnown)

RECURSIVE ConcatRecords(_)
ConcatRecords(ts) ==
    IF ts = <<>> THEN <<>>
    ELSE Head(ts).annual_metrics \o ConcatRecords(Tail(ts))

\* C21: the records of every emitted term are in input order and form a
\* contiguous segment of the input without its "Unknown" records; no record
\* is reordered, duplicated or moved to another term.
C21_OrderPreserved ==
    pc = "done" =>
        /\ \A k \in TermIndex :
              \E a \in 1..(Len(KnownRows) - Len(terms[k].annual_metrics) + 1) :
                  terms[k].annual_metrics =
                      SubSeq(KnownRows, a, a + Len(terms[k].annual_metrics) - 1)
        /\ ConcatRecords(terms) = KnownRows

\* a term of three records whose input has an "Unknown" record between them
C21_Witness ==
    /\ pc = "done"
    /\ PartiesOf(annual) = <<"Labor", "Labor", "Unknown", "Labor", "Liberal/National">>
    /\ Len(terms) = 2
    /\ Len(terms[1].annual_metrics) = 3
    /\ YearsOf(terms[1].annual_metrics) = <<annual[1].year, annual[2].year, annual[4].year>>

---------------------------------------------------------------------------
(* Claims about the aggregator (SpecAgg) *)

Slots == abs_data.slots
SlotIndex == 1..Len(Slots)
Records == final.value
RecordIndex == 1..Len(Records)
CalledAndReturned == pc = "done" /\ final.raised = "None"

\* the years the periods of the model name
ModelYears == {YearTable[p].value : p \in Periods \ Malformed}

\* the periods of year y for which the payload lists a value of the metric
Contributing(y, metric) ==
    {p \in Periods \ Malformed :
        /\ YearTable[p].value = y
        /\ \E i \in SlotIndex : Slots[i].period = p /\ Slots[i][metric] # <<>>}

\* the value of the metric the payload lists last for period p
LastValue(p, metric) ==
    LET at == {i \in SlotIndex : Slots[i].period = p /\ Slots[i][metric] # <<>>}
        last == CHOOSE i \in at : \A j \in at : j <= i
    IN  Slots[last][metric][1]

RECURSIVE SumValues(_, _)
SumValues(ps, metric) ==
    IF ps = {} THEN 0
    ELSE LET p == CHOOSE q \in ps : TRUE
         IN  LastValue(p, metric) + SumValues(ps \ {p}, metric)

\* h hundredths is sum / count rounded to two decimals
IsRoundedMean(h, sum, count) ==
    LET diff == count * h - 100 * sum
    IN  count > 0 /\ 2 * diff <= count /\ 2 * (0 - diff) <= count

\* C5: whatever the order of the payload, the list every aggregator returns
\* is strictly ascending by year (so it has at most one record per year).
C5_StrictlyAscending ==
    CalledAndReturned =>
        \A i \in RecordIndex : \A j \in RecordIndex :
            i < j => Records[i].year < Records[j].year

\* C6: the aggregator emits a record for year y if and only if both metrics
\* have at least 2 contributing quarterly values in y.
C6_CoverageFloor ==
    (pc = "done" /\ abs_data.shape = "Ok") =>
        \A y \in ModelYears :
            (final.raised = "None" /\ \E i \in RecordIndex : Records[i].year = y)
            <=> (/\ Cardinality(Contributing(y, "rppi")) >= 2
                 /\ Cardinality(Contributing(y, "cpi")) >= 2)

\* C7: in every emitted record each annual average is the sum of the metric's
\* contributing quarterly values of that year divided by their count, rounded
\* to 2 decimals.
C7_ArithmeticMean ==
    CalledAndReturned =>
        \A i \in RecordIndex :
            LET y == Records[i].year
                rp == Contributing(y, "rppi")
                cp == Contributing(y, "cpi")
            IN  /\ IsRoundedMean(Records[i].avg_rppi, SumValues(rp, "rppi"), Cardinality(rp))
                /\ IsRoundedMean(Records[i].avg_cpi, SumValues(cp, "cpi"), Cardinality(cp))

\* a year with three CPI quarters 100, 100, 0 and two RPPI quarters 100, 100
C7_Witness ==
    /\ CalledAndReturned
    /\ \E i \in RecordIndex :
          /\ Records[i].year = 2007
          /\ Cardinality(Contributing(2007, "cpi")) = 3
          /\ Cardinality(Contributing(2007, "rppi")) = 2
          /\ Records[i].avg_cpi = 6667
          /\ Records[i].avg_rppi = 10000

IsWellFormed(slot) == slot.period \notin Malformed
WithoutMalformed == [abs_data EXCEPT !.slots = SelectSeq(@, IsWellFormed)]

\* C8: observations with a malformed period are skipped: no aggregator raises
\* on them, and each returns what it returns for the payload without them.
C8_MalformedSkipped ==
    (pc = "done" /\ \E i \in SlotIndex : ~IsWellFormed(Slots[i])) =>
        /\ final.raised # "ValueError"
        /\ final = Outcome(variant, WithoutMalformed)

\* C9: on an absent or empty payload, a payload without observations or one
\* that lacks an expected container, every aggregator returns the empty list
\* and does not raise.
C9_DegeneratePayload ==
    (pc = "done" /\ (abs_data.shape # "Ok" \/ Slots = <<>>)) =>
        final = Returned(<<>>)

\* the year buckets the aggregator that was called builds from the payload
Buckets == AnnualLoop(Returned(<<>>), Quarterly(Slots), variant = "main.py")

\* a period the payload lists more than once with a value of the metric
Repeated(p, metric) ==
    \E i \in SlotIndex : \E j \in SlotIndex :
        /\ i < j
        /\ Slots[i].period = p /\ Slots[j].period = p
        /\ Slots[i][metric] # <<>> /\ Slots[j][metric] # <<>>

\* C24: a period contributes at most once per metric to its year's total and
\* count, with the value processed last: a year's count is the number of its
\* distinct periods with a value, its total is the sum of their last values,
\* and a year with a record has at least 2 distinct periods per metric.
C24_OncePerPeriod ==
    (pc = "done" /\ abs_data.shape = "Ok") =>
        LET bk == Buckets
        IN  bk.raised = "None" =>
              /\ \A i \in 1..Len(bk.value) :
                    LET b == bk.value[i]
                    IN  /\ b.rppi_count = Cardinality(Contributing(b.year, "rppi"))
                        /\ b.cpi_count = Cardinality(Contributing(b.year, "cpi"))
                        /\ b.rppi_total = SumValues(Contributing(b.year, "rppi"), "rppi")
                        /\ b.cpi_total = SumValues(Contributing(b.year, "cpi"), "cpi")
              /\ final.raised = "None" =>
                    \A i \in RecordIndex :
                        /\ Cardinality(Contributing(Records[i].year, "rppi")) >= 2
                        /\ Cardinality(Contributing(Records[i].year, "cpi")) >= 2

\* 2007-Q1 is listed twice with both metrics and is the only period of 2007
\* with a value: the year has no record
C24_Witness ==
    /\ CalledAndReturned
    /\ Repeated("2007-Q1", "rppi") /\ Repeated("2007-Q1", "cpi")
    /\ Contributing(2007, "rppi") = {"2007-Q1"}
    /\ Contributing(2007, "cpi") = {"2007-Q1"}
    /\ \A i \in RecordIndex : Records[i].year # 2007

---------------------------------------------------------------------------
(* Claims about the serving layer (SpecServe) *)

IsDescending(ts) ==
    \A i \in 1..Len(ts) :
        i + 1 <= Len(ts) => ts[i].average_gphi_score >= ts[i + 1].average_gphi_score

\* the refresh failed: the fetch failed, or the transformation gave no records
RefreshFailed(up) ==
    ~up.fetched \/ (up.annual.raised = "None" /\ up.annual.value = <<>>)

\* C17: when a refresh fails and a non-empty earlier result is cached, the
\* load operation of every server returns that cached term list; it raises
\* the HTTP 500 error only when nothing is cached.
C17_StaleOnFailure ==
    (resp.path = "refresh" /\ RefreshFailed(resp.up)) =>
        /\ resp.held # <<>> => (resp.kind = "stale" /\ resp.body = resp.held)
        /\ resp.kind = "HTTP500" => resp.held = <<>>

\* C18: at most one refresh is in progress at any time.
C18_SingleRefresh ==
    \A r1 \in Requests : \A r2 \in Requests :
        (r1 # r2 /\ req[r1].pc = "refreshing") => req[r2].pc # "refreshing"

\* C19: every term list the load operation returns (fresh, stale or from the
\* cache) and every list build_json writes is ordered by non-increasing
\* average score.
C19_SortedByScore ==
    /\ IsDescending(resp.body)
    /\ IsDescending(CACHE)

\* a fresh answer of three terms; the grouper gave them in another order
C19_Witness ==
    /\ resp.path = "refresh"
    /\ resp.kind = "fresh"
    /\ Len(resp.body) = 3
    /\ resp.body # calculate_government_terms(resp.up.annual.value)
    /\ resp.body[1].average_gphi_score > resp.body[2].average_gphi_score

\* C20: once a refresh has completed at time T, a request arriving at t with
\* t - T < 3600 is answered from the cache without a call upstream, and a
\* request with t - T >= 3600 is not answered from the cache: it refreshes.
C20_FreshWithinTtl ==
    /\ \A r \in Requests :
          (req[r].pc = "refreshing" /\ req[r].last # 0)
          => req[r].at - req[r].last >= CACHE_TTL
    /\ resp.path = "cache" => resp.at - resp.last < CACHE_TTL

---------------------------------------------------------------------------
(* Claims about repeated aggregation (SpecIdem) *)

---------------------------------------------------------------------------
(* Claims about the fetch (SpecFetch, SpecFetchFair) *)

FetchLog == fetch.log
LogIndex == 1..Len(FetchLog)
IsAttempt(e) == e.kind \in {"ok", "fail"}

\* the number of HTTP attempts made for metric m
Attempts(m) == Cardinality({i \in LogIndex : FetchLog[i].metric = m /\ IsAttempt(FetchLog[i])})

\* metric m was attempted MAX_RETRIES times and no attempt succeeded
FailedAll(m) ==
    /\ Attempts(m) = MAX_RETRIES
    /\ \A i \in LogIndex : FetchLog[i].metric = m => FetchLog[i].kind # "ok"

HasReturned == fetch.pc \in {"returned", "loaded"}

\* C22: when the fetch of a metric failed on all its attempts, the load
\* operation of every server leaves the cached term list and the last-fetch
\* timestamp as they were before the call, and gives no fresh result.
C22_NoInstallOnFailedMetric ==
    (fetch.pc = "loaded" /\ variant \in Servers /\ \E m \in MetricIndex : FailedAll(m)) =>
        /\ resp.path = "refresh"
        /\ CACHE = resp.held
        /\ LAST_FETCH = resp.last
        /\ resp.kind # "fresh"

\* main.py or score_calculator.py: the RPPI fetch gave two quarters of 2007,
\* the CPI fetch failed three times, the load had partial data and a result
\* of an earlier load in the cache, which is still there
C22_Witness ==
    /\ fetch.pc = "loaded"
    /\ variant \in {"main.py", "score_calculator.py"}
    /\ fetch.got = << << <<"2007-Q1", "2007-Q2">> >>, <<>> >>
    /\ FailedAll(2)
    /\ resp.up.fetched
    /\ resp.held # <<>>
    /\ CACHE = resp.held
    /\ LAST_FETCH = resp.last
    /\ LAST_FETCH < now

\* the retry loop of a metric: at most MAX_RETRIES attempts, none after the
\* first success, a sleep only between two attempts of the metric
RetryLoopBounded ==
    /\ \A m \in MetricIndex : Attempts(m) <= MAX_RETRIES
    /\ \A i \in LogIndex : \A j \in LogIndex :
          (i < j /\ FetchLog[i].kind = "ok") => FetchLog[j].metric # FetchLog[i].metric
    /\ \A i \in LogIndex :
          FetchLog[i].kind = "sleep" =>
              /\ i > 1
              /\ FetchLog[i - 1] = [metric |-> FetchLog[i].metric, kind |-> "fail"]
              /\ Cardinality({j \in 1..i : FetchLog[j].metric = FetchLog[i].metric
                                           /\ IsAttempt(FetchLog[j])}) < MAX_RETRIES
              /\ i < Len(FetchLog) =>
                    /\ FetchLog[i + 1].metric = FetchLog[i].metric
                    /\ IsAttempt(FetchLog[i + 1])
              /\ i = Len(FetchLog) => fetch.pc = "attempt"

\* a fetch that was started returns
FetchTerminates == (fetch.pc \in {"attempt", "sleep"}) ~> HasReturned

\* C23 as stated: when the fetch has returned, every metric had at least 1 and
\* at most MAX_RETRIES attempts, none after its first success, with sleeps
\* only between two attempts; and every fetch returns.
C23_AsStated ==
    /\ [](RetryLoopBounded
          /\ (HasReturned => \A m \in MetricIndex : Attempts(m) >= 1))
    /\ FetchTerminates

\* C23 (amended): as stated, for every metric whose retry loop the fetch
\* starts: in OLD APP.py and build_data.py the fetch returns None after the
\* third failure of a metric and makes no attempt for the metrics after it;
\* in main.py and score_calculator.py every metric has its attempts.
C23_RetryLoop ==
    /\ [](RetryLoopBounded
          /\ (HasReturned =>
                /\ Attempts(1) >= 1
                /\ IF variant \in {"OLD APP.py", "build_data.py"} /\ FailedAll(1)
                   THEN Attempts(2) = 0 /\ ReturnsNone(variant, fetch.got)
                   ELSE Attempts(2) >= 1))
    /\ FetchTerminates

\* RPPI failed three times with two sleeps in between, CPI succeeded at its
\* second attempt after one sleep, and the fetch returned
C23_Witness ==
    /\ fetch.pc = "returned"
    /\ FailedAll(1)
    /\ Attempts(2) = 2
    /\ fetch.got[2] # <<>>
    /\ Len(FetchLog) = 8
    /\ FetchLog[8] = [metric |-> 2, kind |-> "ok"]

=============================================================================
